---- MODULE Spec2Model ----
(***************************************************************************)
(* Model of src/backend/presentation_manager.py: ScreenManager (screen     *)
(* detection, browser launch and best-effort window placement) and         *)
(* launch_presentations (the distribution of presentations over screens).  *)
(*                                                                         *)
(* Encodings.  A url is a record [present, text]: present = FALSE is a     *)
(* request without the "url" key (dict.get gives None), text is the        *)
(* string as a sequence of codes, << >> being the empty string.  A pid is  *)
(* a positive integer; 0 stands for None.  An error message is a record    *)
(* whose msg field holds the fixed text and whose other fields hold the    *)
(* numbers the f-string interpolates.                                      *)
(***************************************************************************)
EXTENDS Integers, Sequences, FiniteSets, TLC

(* ------------------------------ bounds --------------------------------- *)

\* Largest number of presentations in a config.
MaxRequests == 3

\* Largest number of monitors the OS query tool reports.
MaxScreens == 2

(* ------------------------- program constants --------------------------- *)

FallbackWidth == 1920

FallbackHeight == 1080

\* A second monitor geometry the OS tools may report.
AltWidth == 1366

AltHeight == 768

\* First pid handed out by the OS in the model; pids are positive.
PidBase == 1000

Systems == {"Linux", "Darwin", "Windows", "FreeBSD"}

Widths == {FallbackWidth, AltWidth}

HeightOf(w) == IF w = FallbackWidth THEN FallbackHeight ELSE AltHeight

(* ------------------------------ helpers -------------------------------- *)

RECURSIVE SumTo(_, _)
\* Sum of f[1..k] for a sequence of numbers f.
SumTo(f, k) == IF k = 0 THEN 0 ELSE f[k] + SumTo(f, k - 1)

\* Python's bool(url) negated: None and "" are falsy.
Falsy(url) == ~url.present \/ Len(url.text) = 0

\* presentation.get("url")
GetUrl(presentation) == presentation.url

\* The url of the i-th request of the inputs (0-based index i).
UrlText(i) == [present |-> TRUE, text |-> <<i + 1>>]

NoUrl == [present |-> FALSE, text |-> << >>]

EmptyUrl == [present |-> TRUE, text |-> << >>]

Presentation(kind, i) ==
    [url |-> IF kind = "none" THEN NoUrl
             ELSE IF kind = "empty" THEN EmptyUrl ELSE UrlText(i)]

\* config["presentations"]: request i (0-based) has no url key, an empty url or
\* a url of its own.
Configs ==
    UNION { { [k \in 1..n |-> Presentation(c[k], k - 1)] :
                c \in [1..n -> {"none", "empty", "text"}] } : n \in 0..MaxRequests }

(* --------------------------- screen detection -------------------------- *)

FallbackScreen ==
    [id |-> 0, x |-> 0, y |-> 0, width |-> FallbackWidth,
     height |-> FallbackHeight, primary |-> TRUE]

\* What an OS query tool reports: monitors side by side from x0, by widths.
Monitors(ws, x0) ==
    [k \in 1..Len(ws) |->
        [id |-> k - 1, x |-> x0 + SumTo(ws, k - 1), y |-> 0, width |-> ws[k],
         height |-> HeightOf(ws[k]), primary |-> (k = 1)]]

WidthLists == UNION { [1..k -> Widths] : k \in 0..MaxScreens }

\* Outcomes of the OS query tools.  kind: "raise" (the tool is absent, times
\* out or its output does not parse), "empty" (non-zero exit or no output),
\* "list" (monitors reported), "dict" (PowerShell prints one object),
\* "scalar" (JSON that is neither list nor object).  tk: tkinter works or not.
ToolOutcomes ==
    [kind : {"raise", "empty", "list", "dict", "scalar"},
     ws : WidthLists, x0 : {0, -FallbackWidth}, tk : {"ok", "raise"},
     tkw : Widths]

_detect_screens_linux(out) ==
    IF out.kind = "raise" THEN <<FallbackScreen>>
    ELSE LET screens == IF out.kind = "list" THEN Monitors(out.ws, 0) ELSE << >>
         IN  IF Len(screens) > 0 THEN screens ELSE <<FallbackScreen>>

_detect_screens_macos(out) == <<FallbackScreen>>

_detect_screens_windows_fallback(out) ==
    IF out.tk = "ok"
    THEN << [id |-> 0, x |-> 0, y |-> 0, width |-> out.tkw,
             height |-> HeightOf(out.tkw), primary |-> TRUE] >>
    ELSE <<FallbackScreen>>

_detect_screens_windows(out) ==
    IF out.kind \in {"raise", "empty"} THEN _detect_screens_windows_fallback(out)
    ELSE LET screens ==
               IF out.kind = "list" THEN Monitors(out.ws, out.x0)
               ELSE IF out.kind = "dict" /\ Len(out.ws) > 0
                    THEN Monitors(<<out.ws[1]>>, out.x0)
                    ELSE << >>
         IN  IF Len(screens) > 0 THEN screens
             ELSE _detect_screens_windows_fallback(out)

UnknownSystemScreens == << >>

_detect_screens(sys, out) ==
    IF sys = "Linux" THEN _detect_screens_linux(out)
    ELSE IF sys = "Darwin" THEN _detect_screens_macos(out)
    ELSE IF sys = "Windows" THEN _detect_screens_windows(out)
    ELSE UnknownSystemScreens

(* ------------------------------- state --------------------------------- *)

VARIABLES
    system,         \* platform.system()
    presentations,  \* config.get("presentations", [])
    screens,        \* manager.screens
    pc,             \* position in launch_presentations
    result,         \* the report: success, windows, errors
    index,          \* index (n <= m) / presentation_index (n > m), 0-based
    pps,            \* presentations_per_screen: screen id -> count
    remaining,      \* requests not yet counted on a screen
    walk,           \* number of keys of pps already walked
    i,              \* slice index inside a split screen
    caller,         \* which call site awaits the launch: simple, single, split
    target,         \* screen id the planner names in the call
    ppc,            \* position in the placement sequence of the current launch
    pstep,          \* next command of the current tool chain, 1-based
    mode,           \* "window" (launch_presentation_window) or "position"
    rect,           \* rectangle the placement commands are given
    process,        \* pid of the Popen object, 0 before the spawn
    ret,            \* value the launch call returns, 0 = None
    cmdLog,         \* commands run in the current sequence: <<name, raised>>
    exc,            \* exception that left launch_presentations, "" = none
    argv,           \* sys.argv[1:]: [given, text], text a sequence of tokens
    output,         \* what the program printed on stdout
    attempts,       \* history: browser spawns tried per request (1-based)
    spawnFails,     \* history: number of spawns that raised
    rects,          \* history: [req, screen_id, rect, mode] per launch call
    consumed        \* history: request indices in the order they were taken

vars == <<system, presentations, screens, pc, result, index, pps, remaining,
          walk, i, caller, target, ppc, pstep, mode, rect, process, ret,
          cmdLog, exc, argv, output, attempts, spawnFails, rects, consumed>>

mainVars == <<argv, output>>

planVars == <<index, pps, remaining, walk, i>>

placeVars == <<caller, target, ppc, pstep, mode, rect, process, ret, cmdLog>>

histVars == <<attempts, spawnFails, rects, consumed>>

n == Len(presentations)

m == Len(screens)

NoRect == [x |-> 0, y |-> 0, width |-> 0, height |-> 0]

EmptyResult == [success |-> TRUE, windows |-> << >>, errors |-> << >>]

Init ==
    /\ system \in Systems
    /\ presentations \in Configs
    /\ screens = << >>
    /\ pc = "start"
    /\ result = EmptyResult
    /\ index = 0
    /\ pps = << >>
    /\ remaining = 0
    /\ walk = 0
    /\ i = 0
    /\ caller = "none"
    /\ target = 0
    /\ ppc = "idle"
    /\ pstep = 0
    /\ mode = "none"
    /\ rect = NoRect
    /\ process = 0
    /\ ret = 0
    /\ cmdLog = << >>
    /\ exc = ""
    /\ argv = [given |-> FALSE, text |-> << >>]
    /\ output = [kind |-> "none"]
    /\ attempts = [k \in 1..Len(presentations) |-> 0]
    /\ spawnFails = 0
    /\ rects = << >>
    /\ consumed = << >>

(* ------------------------- report and history -------------------------- *)

MissingUrlError == [msg |-> "Missing URL in presentation config"]

NoPresentationsError == [msg |-> "No presentations to launch"]

\* Mutant of WithError: the error is recorded but success stays as it was.
WithErrorKeepSuccess(res, e) == [res EXCEPT !.errors = Append(@, e)]

\* result["errors"].append(e); result["success"] = False
WithError(res, e) ==
    [res EXCEPT !.errors = Append(@, e), !.success = FALSE]

\* Mutant of WithWindow: a launched window marks the report successful again.
WithWindowSetsSuccess(res, w) ==
    [res EXCEPT !.windows = Append(@, w), !.success = TRUE]

\* result["windows"].append(w)
WithWindow(res, w) == [res EXCEPT !.windows = Append(@, w)]

\* The rectangle of a screen dict.
RectOf(screen) ==
    [x |-> screen.x, y |-> screen.y, width |-> screen.width,
     height |-> screen.height]

\* presentation_index += 1 / the for loop taking the next request.
Consume(k) == consumed' = Append(consumed, k)

(* ---------------------- the launch entry points ------------------------ *)

KnownSystems == {"Linux", "Darwin", "Windows"}

\* Mutant of ResolveScreenId: the fallback to the primary screen is missing.
ResolveScreenIdKeep(screen_id) == screen_id

\* launch_presentation_window: a screen id past the list falls back to 0.
ResolveScreenId(screen_id) == IF screen_id >= m THEN 0 ELSE screen_id

\* Entering launch_presentation_window(url, screen_id, browser) for request k.
\* self.screens[screen_id] is read outside the try: an empty list raises.
CallWindow(k, screen_id, site) ==
    LET sid == ResolveScreenId(screen_id) IN
    /\ UNCHANGED <<attempts, spawnFails>>
    /\ IF sid >= m
       THEN /\ pc' = "raised"
            /\ exc' = "IndexError"
            /\ rects' = rects
            /\ UNCHANGED placeVars
       ELSE /\ pc' = "launching"
            /\ exc' = exc
            /\ caller' = site
            /\ target' = screen_id
            /\ mode' = "window"
            /\ rect' = RectOf(screens[sid + 1])
            /\ rects' = Append(rects, [req |-> k, screen_id |-> sid,
                                       rect |-> RectOf(screens[sid + 1]),
                                       mode |-> "window"])
            /\ process' = 0
            /\ ret' = 0
            /\ cmdLog' = << >>
            /\ pstep' = 0
            /\ ppc' = IF system \in KnownSystems THEN "spawn" ELSE "return"

\* Entering launch_presentation_window_at_position(url, x, y, width, height).
CallAtPosition(k, screen_id, r) ==
    /\ UNCHANGED <<attempts, spawnFails>>
    /\ pc' = "launching"
    /\ exc' = exc
    /\ caller' = "split"
    /\ target' = screen_id
    /\ mode' = "position"
    /\ rect' = r
    /\ rects' = Append(rects, [req |-> k, screen_id |-> screen_id, rect |-> r,
                               mode |-> "position"])
    /\ process' = 0
    /\ ret' = 0
    /\ cmdLog' = << >>
    /\ pstep' = 0
    /\ ppc' = IF system \in KnownSystems THEN "spawn" ELSE "return"

(* ------------------------- launch_presentations ------------------------ *)

\* Mutant of NoPresentations: the empty-list check is missing.
NoPresentationsNever(nreq) == FALSE

\* if num_presentations == 0
NoPresentations(nreq) == nreq = 0

\* Lines 719-737: build the manager (screen detection), the empty report, and
\* choose the strategy.
Start ==
    /\ pc = "start"
    /\ UNCHANGED mainVars
    /\ \E out \in ToolOutcomes : screens' = _detect_screens(system, out)
    /\ IF NoPresentations(n)
       THEN /\ result' = WithError(EmptyResult, NoPresentationsError)
            /\ pc' = "done"
       ELSE /\ result' = EmptyResult
            /\ pc' = IF n <= Len(screens') THEN "simple" ELSE "first_pass"
    /\ UNCHANGED <<system, presentations, exc>>
    /\ UNCHANGED planVars
    /\ UNCHANGED placeVars
    /\ UNCHANGED histVars

\* Mutant of SimpleTarget: every request goes to the primary screen.
SimpleTargetPrimary(idx, nscreens) == 0

\* target_screen_id = index % num_screens
SimpleTarget(idx, nscreens) == idx % nscreens

\* Lines 739-750: one iteration of the n <= m loop up to the launch call.
SimpleStep ==
    /\ pc = "simple"
    /\ UNCHANGED mainVars
    /\ UNCHANGED <<system, presentations, screens, pps, remaining, walk, i>>
    /\ IF index >= n
       THEN /\ pc' = "done"
            /\ UNCHANGED <<result, index, exc>>
            /\ UNCHANGED placeVars
            /\ UNCHANGED histVars
       ELSE IF Falsy(GetUrl(presentations[index + 1]))
       THEN /\ result' = WithError(result, MissingUrlError)
            /\ index' = index + 1
            /\ Consume(index)
            /\ UNCHANGED <<pc, exc, attempts, spawnFails, rects>>
            /\ UNCHANGED placeVars
       ELSE /\ CallWindow(index, SimpleTarget(index, m), "simple")
            /\ Consume(index)
            /\ UNCHANGED <<result, index>>

Min(a, b) == IF a <= b THEN a ELSE b

\* Lines 767-774: one presentation per screen while requests remain.
FirstPassCounts(nreq, nscreens) == [s \in 0..(Min(nreq, nscreens) - 1) |-> 1]

FirstPass ==
    /\ pc = "first_pass"
    /\ UNCHANGED mainVars
    /\ pps' = FirstPassCounts(n, m)
    /\ remaining' = n - Min(n, m)
    /\ pc' = IF remaining' > 0 THEN "overflow" ELSE "walk"
    /\ UNCHANGED <<system, presentations, screens, result, index, walk, i, exc>>
    /\ UNCHANGED placeVars
    /\ UNCHANGED histVars

\* Mutant of RandInt: the upper end is one too far, as randint(0, num_screens).
RandIntInclusive(lo, hi) == lo..(hi + 1)

\* random.randint(0, num_screens - 1): the values it may return; none when the
\* range is empty (randint raises ValueError).
RandInt(lo, hi) == lo..hi

\* presentations_per_screen[s] = presentations_per_screen.get(s, 0) + 1
Increment(counts, s) ==
    [k \in (DOMAIN counts) \cup {s} |->
        IF k = s THEN (IF s \in DOMAIN counts THEN counts[s] ELSE 0) + 1
        ELSE counts[k]]

\* Lines 777-783: one iteration of the overflow loop.
Overflow ==
    /\ pc = "overflow"
    /\ UNCHANGED mainVars
    /\ UNCHANGED <<system, presentations, screens, result, index, walk, i>>
    /\ UNCHANGED placeVars
    /\ UNCHANGED histVars
    /\ IF RandInt(0, m - 1) = {}
       THEN /\ pc' = "raised"
            /\ exc' = "ValueError"
            /\ UNCHANGED <<pps, remaining>>
       ELSE /\ \E s \in RandInt(0, m - 1) : pps' = Increment(pps, s)
            /\ remaining' = remaining - 1
            /\ pc' = IF remaining' > 0 THEN "overflow" ELSE "walk"
            /\ exc' = exc

RECURSIVE SortedSeq(_)
\* sorted(keys)
SortedSeq(S) ==
    IF S = {} THEN << >>
    ELSE LET lo == CHOOSE x \in S : \A y \in S : x <= y
         IN  <<lo>> \o SortedSeq(S \ {lo})

SortedKeys == SortedSeq(DOMAIN pps)

\* Mutant of SkipIndex: the missing-url path forgets to advance the index.
SkipIndexStuck(idx) == idx

\* presentation_index += 1 on the missing-url path (lines 800 and 828).
SkipIndex(idx) == idx + 1

\* Lines 787-803 and 816-818: the walk reaches the next screen of the plan.
WalkStep ==
    /\ pc = "walk"
    /\ UNCHANGED mainVars
    /\ UNCHANGED <<system, presentations, screens, pps, remaining>>
    /\ IF walk >= Len(SortedKeys)
       THEN /\ pc' = "done"
            /\ UNCHANGED <<result, index, walk, i, exc>>
            /\ UNCHANGED placeVars
            /\ UNCHANGED histVars
       ELSE LET screen_id == SortedKeys[walk + 1]
                count == pps[screen_id]
            IN  IF screen_id >= m \/ (count = 1 /\ index >= n)
                THEN /\ pc' = "raised"
                     /\ exc' = "IndexError"
                     /\ UNCHANGED <<result, index, walk, i>>
                     /\ UNCHANGED placeVars
                     /\ UNCHANGED histVars
                ELSE IF count # 1
                THEN /\ pc' = "split"
                     /\ i' = 0
                     /\ UNCHANGED <<result, index, walk, exc>>
                     /\ UNCHANGED placeVars
                     /\ UNCHANGED histVars
                ELSE IF Falsy(GetUrl(presentations[index + 1]))
                THEN /\ result' = WithError(result, MissingUrlError)
                     /\ index' = SkipIndex(index)
                     /\ walk' = walk + 1
                     /\ Consume(index)
                     /\ UNCHANGED <<pc, i, exc, attempts, spawnFails, rects>>
                     /\ UNCHANGED placeVars
                ELSE /\ CallWindow(index, screen_id, "single")
                     /\ Consume(index)
                     /\ UNCHANGED <<result, index, walk, i>>

\* Mutant of WindowWidth: the width is rounded up.
WindowWidthCeil(screen, count) == (screen.width + count - 1) \div count

\* window_width = screen["width"] // count
WindowWidth(screen, count) == screen.width \div count

\* Mutant of SliceRect: slices are laid out from the desktop origin.
SliceRectFromOrigin(screen, k, count) ==
    [x |-> k * WindowWidth(screen, count), y |-> screen.y,
     width |-> WindowWidth(screen, count), height |-> screen.height]

\* Lines 831-835: the rectangle of slice k of count on a screen.
SliceRect(screen, k, count) ==
    [x |-> screen.x + (k * WindowWidth(screen, count)), y |-> screen.y,
     width |-> WindowWidth(screen, count), height |-> screen.height]

\* Lines 820-836: one iteration of the slice loop up to the launch call.
SplitStep ==
    /\ pc = "split"
    /\ UNCHANGED mainVars
    /\ UNCHANGED <<system, presentations, screens, pps, remaining>>
    /\ LET screen_id == SortedKeys[walk + 1]
           count == pps[screen_id]
       IN  IF i >= count
           THEN /\ pc' = "walk"
                /\ walk' = walk + 1
                /\ i' = 0
                /\ UNCHANGED <<result, index, exc>>
                /\ UNCHANGED placeVars
                /\ UNCHANGED histVars
           ELSE IF index >= n
           THEN /\ pc' = "raised"
                /\ exc' = "IndexError"
                /\ UNCHANGED <<result, index, walk, i>>
                /\ UNCHANGED placeVars
                /\ UNCHANGED histVars
           ELSE IF Falsy(GetUrl(presentations[index + 1]))
           THEN /\ result' = WithError(result, MissingUrlError)
                /\ index' = SkipIndex(index)
                /\ i' = i + 1
                /\ Consume(index)
                /\ UNCHANGED <<pc, walk, exc, attempts, spawnFails, rects>>
                /\ UNCHANGED placeVars
           ELSE /\ CallAtPosition(index, screen_id,
                                  SliceRect(screens[screen_id + 1], i, count))
                /\ Consume(index)
                /\ UNCHANGED <<result, index, walk, i>>

(* ------------------------- placement sequence -------------------------- *)

\* The window-manipulation commands inside the first try block.
PrimaryChain(sys, md) ==
    IF sys = "Linux" /\ md = "window"
    THEN <<"wmctrl_unmaximize", "wmctrl_move", "wmctrl_maximize",
           "wmctrl_fullscreen">>
    ELSE IF sys = "Linux"
    THEN <<"wmctrl_unmaximize", "wmctrl_move", "wmctrl_fullscreen">>
    ELSE IF sys = "Windows" THEN <<"powershell_move">>
    ELSE << >>

\* The commands of the except branch (the xdotool chain).
SecondaryChain(sys, md) ==
    IF sys = "Linux" /\ md = "window"
    THEN <<"xdotool_getactivewindow", "xdotool_windowmove",
           "xdotool_windowsize", "xdotool_fullscreen">>
    ELSE IF sys = "Linux"
    THEN <<"xdotool_getactivewindow", "xdotool_unmaximize_vert",
           "xdotool_unmaximize_horz", "xdotool_windowmove",
           "xdotool_windowsize", "xdotool_fullscreen">>
    ELSE << >>

\* time.sleep(2.0) after Popen: _launch_macos has none.
HasSettle(sys) == sys \in {"Linux", "Windows"}

\* The pid the OS gives the process spawned for request k (0-based).
PidOf(k) == PidBase + k

\* Mutant of PlacementResult: a raising placement command fails the launch.
PlacementResultStrict(proc, raised) == IF raised THEN 0 ELSE proc

\* What the _launch_* function returns once its commands are over, whether or
\* not the last one raised: return process.pid.
PlacementResult(proc, raised) == proc

\* What launch_presentation_window returns when Popen raises: None.
SpawnFailureResult == 0

\* _get_browser_command and subprocess.Popen(cmd, ...) inside the try of the
\* launch entry point: either may raise, and the except clause returns None.
SpawnBrowser ==
    /\ ppc = "spawn"
    /\ UNCHANGED mainVars
    /\ \E o \in {"ok", "raise"} :
         IF o = "raise"
         THEN /\ ret' = SpawnFailureResult
              /\ ppc' = "return"
              /\ spawnFails' = spawnFails + 1
              /\ UNCHANGED process
         ELSE /\ process' = PidOf(index)
              /\ spawnFails' = spawnFails
              /\ IF HasSettle(system)
                 THEN ppc' = "settle" /\ ret' = ret
                 ELSE ppc' = "return" /\ ret' = PlacementResult(process', FALSE)
    /\ attempts' = [attempts EXCEPT ![index + 1] = @ + 1]
    /\ UNCHANGED <<caller, target, pstep, mode, rect, cmdLog>>
    /\ UNCHANGED <<system, presentations, screens, pc, result, exc>>
    /\ UNCHANGED planVars
    /\ UNCHANGED <<rects, consumed>>

\* time.sleep(2.0): the window is given time to open.
Settle ==
    /\ ppc = "settle"
    /\ UNCHANGED mainVars
    /\ IF Len(PrimaryChain(system, mode)) > 0
       THEN ppc' = "primary" /\ pstep' = 1 /\ ret' = ret
       ELSE ppc' = "return" /\ pstep' = pstep
            /\ ret' = PlacementResult(process, FALSE)
    /\ UNCHANGED <<caller, target, mode, rect, process, cmdLog>>
    /\ UNCHANGED <<system, presentations, screens, pc, result, exc>>
    /\ UNCHANGED planVars
    /\ UNCHANGED histVars

\* Where the sequence goes after a command of the first try block: a raising
\* command (absent tool, timeout) leaves the block for the except branch.
AfterPrimary(sys, md, step, raised) ==
    IF raised
    THEN IF Len(SecondaryChain(sys, md)) > 0
         THEN [ppc |-> "secondary", pstep |-> 1]
         ELSE [ppc |-> "return", pstep |-> step]
    ELSE IF step < Len(PrimaryChain(sys, md))
         THEN [ppc |-> "primary", pstep |-> step + 1]
         ELSE [ppc |-> "return", pstep |-> step]

\* One subprocess.run([...], timeout=2, capture_output=True) of the try block.
\* "nonzero" is a command that exits with an error status: run() does not raise.
RunPrimary ==
    /\ ppc = "primary"
    /\ UNCHANGED mainVars
    /\ \E o \in {"ok", "nonzero", "raise"} :
         LET nxt == AfterPrimary(system, mode, pstep, o = "raise") IN
         /\ cmdLog' = Append(cmdLog,
                             <<PrimaryChain(system, mode)[pstep], o = "raise">>)
         /\ ppc' = nxt.ppc
         /\ pstep' = nxt.pstep
         /\ ret' = IF nxt.ppc = "return"
                   THEN PlacementResult(process, o = "raise") ELSE ret
    /\ UNCHANGED <<caller, target, mode, rect, process>>
    /\ UNCHANGED <<system, presentations, screens, pc, result, exc>>
    /\ UNCHANGED planVars
    /\ UNCHANGED histVars

\* Where the sequence goes after a command of the except branch: a raising
\* command ends the branch (except Exception as e2), and so does an empty
\* window id from getactivewindow.
AfterSecondary(sys, md, step, raised, noId) ==
    IF raised \/ (step = 1 /\ noId) \/ step >= Len(SecondaryChain(sys, md))
    THEN [ppc |-> "return", pstep |-> step]
    ELSE [ppc |-> "secondary", pstep |-> step + 1]

\* One subprocess.run of the xdotool chain.  "noid" is getactivewindow
\* printing nothing.
RunSecondary ==
    /\ ppc = "secondary"
    /\ UNCHANGED mainVars
    /\ \E o \in {"ok", "nonzero", "noid", "raise"} :
         LET nxt == AfterSecondary(system, mode, pstep, o = "raise", o = "noid") IN
         /\ (o = "noid") => (pstep = 1)
         /\ cmdLog' = Append(cmdLog,
                             <<SecondaryChain(system, mode)[pstep], o = "raise">>)
         /\ ppc' = nxt.ppc
         /\ pstep' = nxt.pstep
         /\ ret' = IF nxt.ppc = "return"
                   THEN PlacementResult(process, o = "raise") ELSE ret
    /\ UNCHANGED <<caller, target, mode, rect, process>>
    /\ UNCHANGED <<system, presentations, screens, pc, result, exc>>
    /\ UNCHANGED planVars
    /\ UNCHANGED histVars

(* --------------------- collecting a launch's result -------------------- *)

\* Mutant of LaunchReturned: the planner goes on as soon as the browser is
\* spawned, leaving the placement commands to run behind it.
LaunchReturnedEarly(p) == p \in {"settle", "primary", "secondary", "return"}

\* The launch call is synchronous: the planner goes on when it has returned.
LaunchReturned(p) == p = "return"

\* The windows entry of each call site.
WindowEntry(site, screen_id, pid, url, k, count) ==
    IF site = "simple"
    THEN [screen_id |-> screen_id, pid |-> pid, url |-> url]
    ELSE IF site = "single"
    THEN [screen_id |-> screen_id, pid |-> pid, url |-> url, split |-> FALSE]
    ELSE [screen_id |-> screen_id, pid |-> pid, url |-> url, split |-> TRUE,
          split_index |-> k, split_total |-> count]

\* The error string of each call site.
LaunchError(site, idx, screen_id) ==
    IF site = "simple"
    THEN [msg |-> "Failed to launch window on screen", window |-> idx + 1,
          screen |-> screen_id]
    ELSE IF site = "single"
    THEN [msg |-> "Failed to launch window on screen", screen |-> screen_id]
    ELSE [msg |-> "Failed to launch window", window |-> idx + 1]

\* if pid: ... else: ...
Collected(res, site, screen_id, pid, url, idx, k, count) ==
    IF pid # 0
    THEN WithWindow(res, WindowEntry(site, screen_id, pid, url, k, count))
    ELSE WithError(res, LaunchError(site, idx, screen_id))

\* Mutant of AfterCollect: a failed launch ends the run.
AfterCollectAbort(site, pid) ==
    IF pid = 0 THEN "done"
    ELSE IF site = "simple" THEN "simple"
    ELSE IF site = "single" THEN "walk" ELSE "split"

\* Where the planner continues after recording a launch: always the loop it
\* came from, whatever the pid was.
AfterCollect(site, pid) ==
    IF site = "simple" THEN "simple"
    ELSE IF site = "single" THEN "walk" ELSE "split"

\* Lines 752-763, 805-815 and 838-856: the launch has returned; record it and
\* move to the next request.
Collect ==
    /\ pc = "launching"
    /\ UNCHANGED mainVars
    /\ LaunchReturned(ppc)
    /\ result' = Collected(result, caller, target, ret,
                           GetUrl(presentations[index + 1]), index, i,
                           IF caller = "split" THEN pps[target] ELSE 1)
    /\ index' = index + 1
    /\ pc' = AfterCollect(caller, ret)
    /\ walk' = IF caller = "single" THEN walk + 1 ELSE walk
    /\ i' = IF caller = "split" THEN i + 1 ELSE i
    /\ cmdLog' = << >>
    /\ UNCHANGED <<caller, target, ppc, pstep, mode, rect, process, ret>>
    /\ UNCHANGED <<system, presentations, screens, pps, remaining, exc>>
    /\ UNCHANGED histVars

(* ---------------------------- specification ---------------------------- *)

Next ==
    \/ Start
    \/ SimpleStep
    \/ FirstPass
    \/ Overflow
    \/ WalkStep
    \/ SplitStep
    \/ SpawnBrowser
    \/ Settle
    \/ RunPrimary
    \/ RunSecondary
    \/ Collect

Spec == Init /\ [][Next]_vars

(* ------------- launch_presentation_window called directly -------------- *)

\* Screen ids a caller of the ScreenManager may ask for.
ScreenIds == 0..(MaxScreens + 1)

\* A caller holds one url and has not built its ScreenManager yet.
InitWindow ==
    /\ system \in Systems
    /\ presentations = <<Presentation("text", 0)>>
    /\ screens = << >>
    /\ pc = "api_new"
    /\ result = EmptyResult
    /\ index = 0
    /\ pps = << >>
    /\ remaining = 0
    /\ walk = 0
    /\ i = 0
    /\ caller = "none"
    /\ target = 0
    /\ ppc = "idle"
    /\ pstep = 0
    /\ mode = "none"
    /\ rect = NoRect
    /\ process = 0
    /\ ret = 0
    /\ cmdLog = << >>
    /\ exc = ""
    /\ argv = [given |-> FALSE, text |-> << >>]
    /\ output = [kind |-> "none"]
    /\ attempts = <<0>>
    /\ spawnFails = 0
    /\ rects = << >>
    /\ consumed = << >>

\* ScreenManager(): lines 18-20.
ApiConstruct ==
    /\ pc = "api_new"
    /\ \E out \in ToolOutcomes : screens' = _detect_screens(system, out)
    /\ pc' = "api"
    /\ UNCHANGED <<system, presentations, result, exc>>
    /\ UNCHANGED mainVars
    /\ UNCHANGED planVars
    /\ UNCHANGED placeVars
    /\ UNCHANGED histVars

\* manager.launch_presentation_window(url, screen_id) with any screen id.
ApiCall ==
    /\ pc = "api"
    /\ \E screen_id \in ScreenIds : CallWindow(0, screen_id, "api")
    /\ UNCHANGED <<system, presentations, screens, result, consumed>>
    /\ UNCHANGED mainVars
    /\ UNCHANGED planVars

\* The call returns its pid or None to the caller.
ApiReturn ==
    /\ pc = "launching"
    /\ caller = "api"
    /\ LaunchReturned(ppc)
    /\ pc' = "api_done"
    /\ UNCHANGED <<system, presentations, screens, result, exc>>
    /\ UNCHANGED mainVars
    /\ UNCHANGED planVars
    /\ UNCHANGED placeVars
    /\ UNCHANGED histVars

NextWindow ==
    \/ ApiConstruct
    \/ ApiCall
    \/ SpawnBrowser
    \/ Settle
    \/ RunPrimary
    \/ RunSecondary
    \/ ApiReturn

SpecWindow == InitWindow /\ [][NextWindow]_vars

(* ------------------------- the command line ---------------------------- *)

\* The argument is JSON text, modelled as its sequence of tokens: the braces
\* and brackets, the key with its colon, the comma, and one token for each
\* request object (without url key, with an empty url, with a url).
ItemTokens == {"item_no_url", "item_empty_url", "item_url"}

ItemToken(presentation) ==
    IF ~presentation.url.present THEN "item_no_url"
    ELSE IF Len(presentation.url.text) = 0 THEN "item_empty_url"
    ELSE "item_url"

KindOf(token) ==
    IF token = "item_no_url" THEN "none"
    ELSE IF token = "item_empty_url" THEN "empty" ELSE "text"

\* The request objects of a config, separated by commas.
Items(c) ==
    [k \in 1..(IF Len(c) = 0 THEN 0 ELSE 2 * Len(c) - 1) |->
        IF k % 2 = 1 THEN ItemToken(c[(k + 1) \div 2]) ELSE ","]

\* json.dumps of {"presentations": c}.
Encode(c) == <<"{", "presentations:", "[">> \o Items(c) \o <<"]", "}">>

WellFormedTexts == {Encode(c) : c \in Configs} \cup {<<"{", "}">>}

\* Texts json.loads rejects: the empty string, "{bad json", and every
\* well-formed text cut short of its last token.
MalformedTexts ==
    {<< >>, <<"{", "bad", "json">>}
        \cup {SubSeq(t, 1, Len(t) - 1) : t \in WellFormedTexts}

Argvs ==
    {[given |-> FALSE, text |-> << >>]}
        \cup {[given |-> TRUE, text |-> t] : t \in WellFormedTexts \cup MalformedTexts}

ItemsOk(items) ==
    \/ Len(items) = 0
    \/ /\ Len(items) % 2 = 1
       /\ \A k \in 1..Len(items) :
            IF k % 2 = 1 THEN items[k] \in ItemTokens ELSE items[k] = ","

\* Mutant of ParseOk: the parser does not look past the opening brace.
ParseOkLenient(text) == Len(text) >= 1 /\ text[1] = "{"

\* json.loads(sys.argv[1]) returns (it raises JSONDecodeError otherwise).
ParseOk(text) ==
    /\ Len(text) >= 2
    /\ text[1] = "{"
    /\ text[Len(text)] = "}"
    /\ \/ Len(text) = 2
       \/ /\ Len(text) >= 5
          /\ text[2] = "presentations:"
          /\ text[3] = "["
          /\ text[Len(text) - 1] = "]"
          /\ ItemsOk(SubSeq(text, 4, Len(text) - 2))

\* config.get("presentations", []) of the parsed object.
ParseValue(text) ==
    IF Len(text) = 2 THEN << >>
    ELSE LET items == SubSeq(text, 4, Len(text) - 2)
         IN  [k \in 1..((Len(items) + 1) \div 2) |->
                 Presentation(KindOf(items[2 * k - 1]), k - 1)]

InvalidJsonError == [msg |-> "Invalid JSON: ", detail |-> "JSONDecodeError"]

\* The dict printed by the except clause.
InvalidJsonOutput ==
    [kind |-> "report", success |-> FALSE, errors |-> <<InvalidJsonError>>,
     windows |-> << >>]

\* The program is started with or without an argument.
InitMain ==
    /\ system \in Systems
    /\ argv \in Argvs
    /\ presentations = << >>
    /\ screens = << >>
    /\ pc = "main"
    /\ result = EmptyResult
    /\ index = 0
    /\ pps = << >>
    /\ remaining = 0
    /\ walk = 0
    /\ i = 0
    /\ caller = "none"
    /\ target = 0
    /\ ppc = "idle"
    /\ pstep = 0
    /\ mode = "none"
    /\ rect = NoRect
    /\ process = 0
    /\ ret = 0
    /\ cmdLog = << >>
    /\ exc = ""
    /\ output = [kind |-> "none"]
    /\ attempts = << >>
    /\ spawnFails = 0
    /\ rects = << >>
    /\ consumed = << >>

\* Lines 861-884 up to the call of launch_presentations: test mode without
\* an argument, the error report for text that does not parse, the call
\* otherwise.
Main ==
    /\ pc = "main"
    /\ UNCHANGED <<system, result, exc, argv>>
    /\ UNCHANGED planVars
    /\ UNCHANGED placeVars
    /\ UNCHANGED <<spawnFails, rects, consumed>>
    /\ IF ~argv.given
       THEN /\ \E out \in ToolOutcomes : screens' = _detect_screens(system, out)
            /\ output' = [kind |-> "diagnostic", screens |-> screens',
                          system |-> system]
            /\ pc' = "exit"
            /\ UNCHANGED <<presentations, attempts>>
       ELSE IF ParseOk(argv.text)
       THEN /\ presentations' = ParseValue(argv.text)
            /\ attempts' = [k \in 1..Len(presentations') |-> 0]
            /\ pc' = "start"
            /\ UNCHANGED <<screens, output>>
       ELSE /\ output' = InvalidJsonOutput
            /\ pc' = "exit"
            /\ UNCHANGED <<presentations, screens, attempts>>

\* print(json.dumps(result)) once launch_presentations has returned.
Emit ==
    /\ pc = "done"
    /\ output' = [kind |-> "report", success |-> result.success,
                  windows |-> result.windows, errors |-> result.errors,
                  screens |-> screens]
    /\ pc' = "exit"
    /\ UNCHANGED <<system, presentations, screens, result, exc, argv>>
    /\ UNCHANGED planVars
    /\ UNCHANGED placeVars
    /\ UNCHANGED histVars

NextMain ==
    \/ Main
    \/ Emit
    \/ Start
    \/ SimpleStep
    \/ FirstPass
    \/ Overflow
    \/ WalkStep
    \/ SplitStep
    \/ SpawnBrowser
    \/ Settle
    \/ RunPrimary
    \/ RunSecondary
    \/ Collect

SpecMain == InitMain /\ [][NextMain]_vars

(* ------------------------ vocabulary of the claims --------------------- *)

\* Request k (0-based) carries a non-empty url.
HasUrl(k) == ~Falsy(GetUrl(presentations[k + 1]))

Truthy(url) == ~Falsy(url)

\* The non-empty urls of the config, in input order.
UrlsPresent == SelectSeq([k \in 1..n |-> GetUrl(presentations[k])], Truthy)

MissingCount == n - Len(UrlsPresent)

\* The requests a rectangle was resolved for.
RectReqs == {rects[j].req : j \in 1..Len(rects)}

RECURSIVE SumOver(_, _)
\* Sum of counts[s] for s in S.
SumOver(counts, S) ==
    IF S = {} THEN 0
    ELSE LET s == CHOOSE x \in S : TRUE
         IN  counts[s] + SumOver(counts, S \ {s})

\* Requests planned on the screens before screen s.
CountBefore(s) == SumOver(pps, {t \in DOMAIN pps : t < s})

IsLaunchError(e) == e # MissingUrlError /\ e # NoPresentationsError

LaunchErrors == Len(SelectSeq(result.errors, IsLaunchError))

\* The request (0-based) a windows entry belongs to, read off its url.
ReqOfWindow(w) == w.url.text[1] - 1

(* -------------------------------- C1 ----------------------------------- *)

\* C1 as stated: with n >= 1 requests and m >= 1 screens, as soon as a launch
\* is attempted (or the run is over) there are exactly n target rectangles,
\* one for each request.
C1_AllRectanglesBeforeLaunch ==
    (n >= 1 /\ m >= 1 /\ (Len(rects) > 0 \/ pc = "done"))
        => /\ Len(rects) = n
           /\ RectReqs = 0..(n - 1)

\* C1 amended: with n >= 1 requests and m >= 1 screens the requests are taken
\* one by one in input order, none twice and none left out; a rectangle is
\* resolved for a request only if its url is non-empty, at most once, and by
\* the end of the run for exactly the requests with a non-empty url; when
\* n > m the per-screen counts are complete (they sum to n) before the first
\* rectangle is resolved.
C1_EachRequestOnce ==
    (n >= 1 /\ m >= 1)
        => /\ \A j \in 1..Len(consumed) : consumed[j] = j - 1
           /\ Len(consumed) <= n
           /\ \A j \in 1..Len(rects) :
                /\ rects[j].req \in 0..(n - 1)
                /\ HasUrl(rects[j].req)
                /\ \A q \in 1..Len(rects) : rects[q].req = rects[j].req => q = j
           /\ (Len(rects) > 0 /\ n > m)
                => remaining = 0 /\ SumOver(pps, DOMAIN pps) = n
           /\ pc = "done"
                => /\ Len(consumed) = n
                   /\ RectReqs = {k \in 0..(n - 1) : HasUrl(k)}

\* A finished run over 3 requests and 2 screens in which one request had no
\* url: two rectangles, one of them a slice.
C1_Witness ==
    /\ pc = "done"
    /\ n = 3
    /\ m = 2
    /\ Len(consumed) = 3
    /\ Len(rects) = 2
    /\ \E j \in 1..Len(rects) : rects[j].mode = "position"

(* -------------------------------- C2 ----------------------------------- *)

\* C2: when n <= m, request i is launched on screen i mod m and the rectangle
\* given to the placement is that screen's full rectangle; the report names
\* the same screen.
C2_NoSplit ==
    (n >= 1 /\ n <= m)
        => /\ \A j \in 1..Len(rects) :
                /\ rects[j].mode = "window"
                /\ rects[j].screen_id = rects[j].req % m
                /\ rects[j].rect = RectOf(screens[(rects[j].req % m) + 1])
           /\ \A j \in 1..Len(result.windows) :
                result.windows[j].screen_id = ReqOfWindow(result.windows[j]) % m
           /\ pc = "launching" => rect = RectOf(screens[(index % m) + 1])

\* Two requests on two screens, both launched: the second got the second
\* screen's rectangle.
C2_Witness ==
    /\ pc = "done"
    /\ n = 2
    /\ m = 2
    /\ Len(rects) = 2
    /\ rects[2].screen_id = 1
    /\ rects[2].rect = RectOf(screens[2])
    /\ rects[2].rect # RectOf(screens[1])

(* -------------------------------- C3 ----------------------------------- *)

\* C3: when n > m, every request launched on a screen that was given k > 1
\* requests gets a slice of it: slice q (the request's rank on that screen,
\* in input order) has the screen's y and height, width floor(width / k) and
\* x = screen.x + q * floor(width / k); slices are used for no other screen.
C3_SplitPartition ==
    (n > m /\ m >= 1)
        => \A j \in 1..Len(rects) :
             LET r == rects[j]
                 k == pps[r.screen_id]
                 q == r.req - CountBefore(r.screen_id)
                 scr == screens[r.screen_id + 1]
             IN  /\ (r.mode = "position") <=> (k > 1)
                 /\ k > 1 =>
                      /\ q \in 0..(k - 1)
                      /\ r.rect.y = scr.y
                      /\ r.rect.height = scr.height
                      /\ r.rect.width * k <= scr.width
                      /\ scr.width < (r.rect.width + 1) * k
                      /\ r.rect.x = scr.x + q * r.rect.width

\* The scenario of the specification: 2 requests on one 1920x1080 screen at
\* the origin end as slices at x = 0 and x = 960, 960 wide, 1080 high.
C3_Witness ==
    /\ pc = "done"
    /\ n = 2
    /\ screens = <<FallbackScreen>>
    /\ Len(rects) = 2
    /\ rects[1].rect = [x |-> 0, y |-> 0, width |-> 960, height |-> 1080]
    /\ rects[2].rect = [x |-> 960, y |-> 0, width |-> 960, height |-> 1080]

(* -------------------------------- C4 ----------------------------------- *)

C5_AttemptedOnce ==
    (n >= 1 /\ m >= 1)
        => /\ \A k \in 0..(n - 1) : attempts[k + 1] <= 1
           /\ pc = "done"
                => /\ \A k \in 0..(n - 1) :
                        attempts[k + 1] = IF HasUrl(k) THEN 1 ELSE 0
                   /\ LaunchErrors = spawnFails
                   /\ spawnFails > 0 => ~result.success

\* A finished run over 3 requests with urls whose first launch failed: the
\* other two were still launched.
C5_Witness ==
    /\ pc = "done"
    /\ n = 3
    /\ m >= 1
    /\ \A k \in 0..2 : HasUrl(k) /\ attempts[k + 1] = 1
    /\ spawnFails = 1
    /\ Len(result.windows) = 2
    /\ ReqOfWindow(result.windows[1]) = 1
    /\ ReqOfWindow(result.windows[2]) = 2

(* -------------------------------- C6 ----------------------------------- *)

\* C6: no exception leaves launch_presentations, whatever the config and the
\* detected screens.
C6_NeverRaises == pc # "raised" /\ exc = ""

(* -------------------------------- C7 ----------------------------------- *)

\* C7: with an empty detected screen list and at least one request the run
\* goes on as if there were one screen: it does not stop on an empty-range
\* random choice, an out-of-range index or a division by zero.
C7_EmptyScreensCompletes ==
    (pc # "start" /\ m = 0 /\ n >= 1)
        => exc \notin {"ValueError", "IndexError", "ZeroDivisionError"}

(* -------------------------------- C8 ----------------------------------- *)

\* C8: once the ScreenManager is built its screen list is non-empty, on every
\* platform and for every outcome of the OS query tools.
C8_DetectionNonEmpty == pc # "start" => Len(screens) >= 1

(* -------------------------------- C9 ----------------------------------- *)

\* Spawns that succeeded so far.
SpawnedOk == SumOver(attempts, DOMAIN attempts) - spawnFails

\* C9: when a launch call returns, it returns the pid of the browser process
\* whenever that process was started, whatever the placement commands of both
\* tool chains did; it returns None only when the spawn failed.  So a finished
\* run reports one window per started browser.
C9_LaunchDecoupled ==
    /\ (pc = "launching" /\ ppc = "return")
         => /\ process # 0 => ret = process
            /\ ret = 0 => (process = 0 /\ attempts[index + 1] = 1
                                        /\ cmdLog = << >>)
    /\ (pc = "done" /\ n >= 1) => Len(result.windows) = SpawnedOk

\* A launch returns the pid although a command of the first chain raised and
\* then a command of the fallback chain raised too.
C9_Witness ==
    /\ pc = "launching"
    /\ ppc = "return"
    /\ process # 0
    /\ ret = process
    /\ \E j \in 1..Len(cmdLog) : cmdLog[j] = <<"wmctrl_unmaximize", TRUE>>
    /\ cmdLog[Len(cmdLog)] = <<"xdotool_windowmove", TRUE>>

(* -------------------------------- C10 ---------------------------------- *)

\* Launch calls whose result the planner has recorded.
Recorded == Len(result.windows) + LaunchErrors

\* C10: while a placement sequence (spawn, settle delay, commands of either
\* chain) is unfinished the planner waits in that launch call; exactly one
\* sequence is open while it waits and none otherwise, so a browser is never
\* spawned before the previous sequence is over.
C10_Sequential ==
    /\ ppc \in {"spawn", "settle", "primary", "secondary"} => pc = "launching"
    /\ pc = "launching" => Len(rects) = Recorded + 1
    /\ pc # "launching" => Len(rects) = Recorded

\* The second request's sequence has just run the fallback chain to its last
\* command, after the first request's launch was recorded.
C10_Witness ==
    /\ pc = "launching"
    /\ ppc = "return"
    /\ Len(rects) = 2
    /\ Len(result.windows) = 1
    /\ Len(cmdLog) > 0
    /\ cmdLog[Len(cmdLog)][1] = "xdotool_fullscreen"

(* -------------------------------- C11 ---------------------------------- *)

\* C11: with an empty presentations list the run ends at once with
\* success = false, the single error "No presentations to launch", no windows
\* and no launch attempted, whatever the detected screens are.
C11_EmptyInput ==
    (pc # "start" /\ n = 0)
        => /\ pc = "done"
           /\ result = [success |-> FALSE, windows |-> << >>,
                        errors |-> <<NoPresentationsError>>]
           /\ rects = << >>
           /\ ppc = "idle"
           /\ spawnFails = 0
           /\ exc = ""

\* The empty list was given on a host with two screens and the run is over.
C11_Witness ==
    /\ pc = "done"
    /\ n = 0
    /\ m = 2
    /\ Len(result.errors) = 1
    /\ ~result.success

(* -------------------------------- C14 ---------------------------------- *)

\* The names of the commands run in the current placement sequence.
Logged == {cmdLog[j][1] : j \in 1..Len(cmdLog)}

\* The commands of the current sequence that raised (absent tool, timeout).
LoggedRaised == {cmdLog[j][1] : j \in {q \in 1..Len(cmdLog) : cmdLog[q][2]}}

\* In a chain, every command that raised was followed by the chain's next one.
NextAttempted(chain) ==
    \A p \in 1..(Len(chain) - 1) :
        chain[p] \in LoggedRaised => chain[p + 1] \in Logged

\* C14: when a placement sequence is over, a command that failed or timed out
\* has not kept the later commands of its sequence from being attempted.
C14_IndependentSteps ==
    (pc = "launching" /\ ppc = "return" /\ process # 0)
        => /\ NextAttempted(PrimaryChain(system, mode))
           /\ NextAttempted(SecondaryChain(system, mode))

(* -------------------------------- C15 ---------------------------------- *)

\* C15: when n > m >= 1, whatever the random choices, the plan gives every
\* screen 0..m-1 at least one request and n requests in all, and the walk takes
\* the request indices 0..n-1 once each without reading past the list.
C15_PerScreenLoad ==
    (n > m /\ m >= 1)
        => /\ pc # "raised"
           /\ index <= n
           /\ pc = "overflow"
                => SumOver(pps, DOMAIN pps) + remaining = n
           /\ pc \in {"walk", "split", "launching", "done"}
                => /\ DOMAIN pps = 0..(m - 1)
                   /\ \A s \in DOMAIN pps : pps[s] >= 1
                   /\ SumOver(pps, DOMAIN pps) = n
                   /\ remaining = 0
           /\ pc = "done"
                => /\ consumed = [k \in 1..n |-> k - 1]
                   /\ index = n
                   /\ walk = m

\* 3 requests on 2 screens, the random choice fell on the second screen, and
\* the walk is over.
C15_Witness ==
    /\ pc = "done"
    /\ n = 3
    /\ m = 2
    /\ pps[0] = 1
    /\ pps[1] = 2
    /\ Len(consumed) = 3

(* -------------------------------- C16 ---------------------------------- *)

IsPrefix(a, b) == Len(a) <= Len(b) /\ \A j \in 1..Len(a) : a[j] = b[j]

\* C16: throughout a run success is true exactly when errors is empty; success
\* never goes back from false to true, and windows and errors only grow at
\* their end.
C16_ReportConsistent ==
    /\ [](result.success <=> (result.errors = << >>))
    /\ [][/\ ~result.success => ~result'.success
          /\ IsPrefix(result.windows, result'.windows)
          /\ IsPrefix(result.errors, result'.errors)]_vars

\* A finished run whose first request had no url and whose second request was
\* launched: one error, then one window, success false.
C16_Witness ==
    /\ pc = "done"
    /\ n = 2
    /\ ~HasUrl(0)
    /\ Len(result.errors) = 1
    /\ Len(result.windows) = 1
    /\ ReqOfWindow(result.windows[1]) = 1
    /\ ~result.success

(* -------------------------------- C17 ---------------------------------- *)

\* C17: once the plan is made, for every screen of positive width that was
\* given k > 1 requests, each slice 0..k-1 lies within the screen's horizontal
\* extent, two different slices do not overlap, and fewer than k pixels stay
\* uncovered at the right edge; the rectangles actually launched at a position
\* are such slices.
C17_SlicesInside ==
    (n > m /\ m >= 1 /\ pc \in {"walk", "split", "launching", "done"})
        => /\ \A s \in DOMAIN pps :
                LET k == pps[s]
                    scr == screens[s + 1]
                IN  (k > 1 /\ scr.width > 0) =>
                      /\ \A q \in 0..(k - 1) :
                           LET r == SliceRect(scr, q, k) IN
                           /\ scr.x <= r.x
                           /\ r.x + r.width <= scr.x + scr.width
                           /\ \A t \in 0..(k - 1) :
                                t # q =>
                                  \/ r.x + r.width <= SliceRect(scr, t, k).x
                                  \/ SliceRect(scr, t, k).x
                                       + SliceRect(scr, t, k).width <= r.x
                      /\ scr.width - k * WindowWidth(scr, k) \in 0..(k - 1)
           /\ \A j \in 1..Len(rects) :
                rects[j].mode = "position" =>
                  \E q \in 0..(pps[rects[j].screen_id] - 1) :
                     rects[j].rect = SliceRect(screens[rects[j].screen_id + 1],
                                               q, pps[rects[j].screen_id])

\* One screen of the second geometry split in 3: the three slices were
\* launched and the last one ends short of the screen's right edge.
C17_Witness ==
    /\ pc = "done"
    /\ n = 3
    /\ m = 1
    /\ screens[1].width = AltWidth
    /\ Len(rects) = 3
    /\ rects[1].rect.x = screens[1].x
    /\ rects[2].rect.x = rects[1].rect.x + rects[1].rect.width
    /\ rects[3].rect.x + rects[3].rect.width < screens[1].x + screens[1].width

(* -------------------------------- C13 ---------------------------------- *)

C12_MalformedJson ==
    (argv.given /\ argv.text \in MalformedTexts /\ pc # "main")
        => /\ pc = "exit"
           /\ output = InvalidJsonOutput
           /\ presentations = << >>
           /\ screens = << >>
           /\ result = EmptyResult
           /\ rects = << >>
           /\ consumed = << >>
           /\ ppc = "idle"
           /\ process = 0
           /\ spawnFails = 0

\* The text "{bad json" was given and the error report printed.
C12_Witness ==
    /\ pc = "exit"
    /\ argv.given
    /\ argv.text = <<"{", "bad", "json">>
    /\ ~output.success
    /\ output.errors = <<InvalidJsonError>>
    /\ output.windows = << >>

====
